---- MODULE Spec2Model ----
(***************************************************************************)
(* Flight search engine: the in-memory pipeline of the results page.       *)
(*   processed flights -> applyFilters -> sort -> page slice               *)
(* State is the React state of FlightSearchPage and of the hooks it uses:  *)
(* the search parameters of the URL, the processed flights of the current  *)
(* response, the FilterState, the sort field and direction, and the page   *)
(* index.  Everything else                                                 *)
(* (filteredFlights, sortedFlights, paginatedSortedFlights) is a useMemo / *)
(* render-time derivation and is modelled as an operator over the state.   *)
(***************************************************************************)
EXTENDS Integers, Sequences, FiniteSets, TLC

VARIABLES searchParams, flights, filters, sortField, sortDirection, currentPage,
          \* history: the user has changed or reset a filter since the last search
          filterTouched,
          \* the query cache of the client and the requests sent to the API
          queryCache, networkRequests,
          \* window.location.search and the link last handed to share
          locationSearch, sharedLink,
          \* the booking modal: its open prop and its state
          open, name, cardNumber, bookingState,
          \* the promise returned by the onConfirm prop of the booking modal
          confirmation

\* the state of the fetch layer, of the address bar and of the booking modal
queryVars == <<queryCache, networkRequests>>

urlVars == <<locationSearch, sharedLink>>

modalVars == <<open, name, cardNumber, bookingState, confirmation>>

extVars == <<queryVars, urlVars, modalVars>>

vars == <<searchParams, flights, filters, sortField, sortDirection, currentPage,
         filterTouched, queryCache, networkRequests, locationSearch, sharedLink,
         open, name, cardNumber, bookingState, confirmation>>

(***************************************************************************)
(* Bounds of the model                                                     *)
(***************************************************************************)
\* longest flight list of the filter specification
MaxFlights == 3
\* longest flight list of the sort specification
MaxSortFlights == 5
\* longest flight list of the pagination specification
MaxPageFlights == 23
\* largest page index a user navigates to in the pagination specification
MaxPage == 4

(***************************************************************************)
(* Generic helpers                                                         *)
(***************************************************************************)
Range(s) == {s[i] : i \in 1..Len(s)}

Min2(a, b) == IF a <= b THEN a ELSE b

Max2(a, b) == IF a >= b THEN a ELSE b

Reverse(s) == [i \in 1..Len(s) |-> s[Len(s) + 1 - i]]

\* TRUE iff sub can be obtained from full by deleting elements (order kept)
RECURSIVE IsSubsequence(_, _)
IsSubsequence(sub, full) ==
  IF sub = <<>> THEN TRUE
  ELSE IF full = <<>> THEN FALSE
  ELSE IF Head(sub) = Head(full) THEN IsSubsequence(Tail(sub), Tail(full))
  ELSE IsSubsequence(sub, Tail(full))

(***************************************************************************)
(* ProcessedFlight.  departureTime and arrivalTime are instants, counted   *)
(* in whole hours of local time since a local midnight; Date.getHours()    *)
(* is the hour of day of the instant, Date.getTime() is the instant.       *)
(***************************************************************************)
getHours(instant) == instant % 24

getTime(instant) == instant

StopLabels == {"0", "1", "2+"}

SortFields == {"price", "duration", "departure"}

SortDirections == {"asc", "desc"}

(***************************************************************************)
(* applyFilters (Helper.ts)                                                *)
(***************************************************************************)
\* mutant: '2+' is given to exactly two stops only
stopCategory_exactlyTwo(flight) ==
  IF flight.totalStops = 0 THEN "0"
  ELSE IF flight.totalStops = 1 THEN "1"
  ELSE IF flight.totalStops = 2 THEN "2+"
  ELSE "3+"

\* the stop category of a flight: '0', '1' or '2+'
stopCategory(flight) ==
  IF flight.totalStops = 0 THEN "0"
  ELSE IF flight.totalStops = 1 THEN "1"
  ELSE "2+"

\* mutant: the lowest price of the range is excluded (< written as <=)
filterCallback_strictMin(flight, f) ==
  IF flight.priceNumeric <= f.priceRange[1] \/ flight.priceNumeric > f.priceRange[2]
    THEN FALSE
  ELSE IF f.stops # {} /\ stopCategory(flight) \notin f.stops THEN FALSE
  ELSE IF f.airlines # {} /\ flight.mainAirline \notin f.airlines THEN FALSE
  ELSE IF getHours(flight.departureTime) < f.departureTimeRange[1]
          \/ getHours(flight.departureTime) > f.departureTimeRange[2] THEN FALSE
  ELSE IF getHours(flight.arrivalTime) < f.arrivalTimeRange[1]
          \/ getHours(flight.arrivalTime) > f.arrivalTimeRange[2] THEN FALSE
  ELSE IF flight.totalDuration < f.duration[1]
          \/ flight.totalDuration > f.duration[2] THEN FALSE
  ELSE TRUE

\* mutant: the stops test runs for an empty selection as well
filterCallback_noEmptyCheck(flight, f) ==
  IF flight.priceNumeric < f.priceRange[1] \/ flight.priceNumeric > f.priceRange[2]
    THEN FALSE
  ELSE IF stopCategory(flight) \notin f.stops THEN FALSE
  ELSE IF f.airlines # {} /\ flight.mainAirline \notin f.airlines THEN FALSE
  ELSE IF getHours(flight.departureTime) < f.departureTimeRange[1]
          \/ getHours(flight.departureTime) > f.departureTimeRange[2] THEN FALSE
  ELSE IF getHours(flight.arrivalTime) < f.arrivalTimeRange[1]
          \/ getHours(flight.arrivalTime) > f.arrivalTimeRange[2] THEN FALSE
  ELSE IF flight.totalDuration < f.duration[1]
          \/ flight.totalDuration > f.duration[2] THEN FALSE
  ELSE TRUE

\* mutant: the upper price test reads index 0 of the range instead of index 1
filterCallback_wrongIndex(flight, f) ==
  IF flight.priceNumeric < f.priceRange[1] \/ flight.priceNumeric > f.priceRange[1]
    THEN FALSE
  ELSE IF f.stops # {} /\ stopCategory(flight) \notin f.stops THEN FALSE
  ELSE IF f.airlines # {} /\ flight.mainAirline \notin f.airlines THEN FALSE
  ELSE IF getHours(flight.departureTime) < f.departureTimeRange[1]
          \/ getHours(flight.departureTime) > f.departureTimeRange[2] THEN FALSE
  ELSE IF getHours(flight.arrivalTime) < f.arrivalTimeRange[1]
          \/ getHours(flight.arrivalTime) > f.arrivalTimeRange[2] THEN FALSE
  ELSE IF flight.totalDuration < f.duration[1]
          \/ flight.totalDuration > f.duration[2] THEN FALSE
  ELSE TRUE

\* the callback handed to flights.filter: a chain of early "return false"
filterCallback(flight, f) ==
  IF flight.priceNumeric < f.priceRange[1] \/ flight.priceNumeric > f.priceRange[2]
    THEN FALSE
  ELSE IF f.stops # {} /\ stopCategory(flight) \notin f.stops THEN FALSE
  ELSE IF f.airlines # {} /\ flight.mainAirline \notin f.airlines THEN FALSE
  ELSE IF getHours(flight.departureTime) < f.departureTimeRange[1]
          \/ getHours(flight.departureTime) > f.departureTimeRange[2] THEN FALSE
  ELSE IF getHours(flight.arrivalTime) < f.arrivalTimeRange[1]
          \/ getHours(flight.arrivalTime) > f.arrivalTimeRange[2] THEN FALSE
  ELSE IF flight.totalDuration < f.duration[1]
          \/ flight.totalDuration > f.duration[2] THEN FALSE
  ELSE TRUE

\* mutant: accepted elements are put in front of the result (unshift for push)
RECURSIVE arrayFilter_unshift(_, _)
arrayFilter_unshift(fl, f) ==
  IF fl = <<>> THEN <<>>
  ELSE IF filterCallback(Head(fl), f)
    THEN arrayFilter_unshift(Tail(fl), f) \o <<Head(fl)>>
  ELSE arrayFilter_unshift(Tail(fl), f)

\* Array.prototype.filter: a new array of the elements the callback accepts,
\* visited in index order
RECURSIVE arrayFilter(_, _)
arrayFilter(fl, f) ==
  IF fl = <<>> THEN <<>>
  ELSE IF filterCallback(Head(fl), f) THEN <<Head(fl)>> \o arrayFilter(Tail(fl), f)
  ELSE arrayFilter(Tail(fl), f)

\* mutant: the scan starts at index 1, the first flight is never looked at
applyFilters_fromIndexOne(fl, f) ==
  IF fl = <<>> THEN <<>> ELSE arrayFilter(Tail(fl), f)

applyFilters(fl, f) == arrayFilter(fl, f)

\* getUniqueAirlines: the carrier codes present in a flight list
getUniqueAirlines(fl) == {fl[i].mainAirline : i \in 1..Len(fl)}

(***************************************************************************)
(* useFlightFilters (useFlights.ts)                                        *)
(***************************************************************************)
\* getPriceRange of an empty flight list
PriceFallbackMin == 0
PriceFallbackMax == 1000
\* getDurationRange of an empty flight list
DurationFallbackMin == 0
DurationFallbackMax == 1440
\* the fixed hour range of the time filters
HourMin == 0
HourMax == 23

\* the FilterState of useState on the first render, when no flight has arrived
InitialFilters ==
  [priceRange |-> <<PriceFallbackMin, PriceFallbackMax>>,
   stops |-> {},
   airlines |-> {},
   departureTimeRange |-> <<HourMin, HourMax>>,
   arrivalTimeRange |-> <<HourMin, HourMax>>,
   duration |-> <<DurationFallbackMin, DurationFallbackMax>>]

filteredFlights == applyFilters(flights, filters)

\* Math.min(...values) and Math.max(...values) of a non-empty array
RECURSIVE mathMin(_)
mathMin(values) ==
  IF Len(values) = 1 THEN values[1] ELSE Min2(values[1], mathMin(Tail(values)))

RECURSIVE mathMax(_)
mathMax(values) ==
  IF Len(values) = 1 THEN values[1] ELSE Max2(values[1], mathMax(Tail(values)))

\* Math.floor and Math.ceil of a price or duration: the numbers of the model
\* are whole, and a whole number is its own floor and ceiling
mathFloor(x) == x

mathCeil(x) == x

\* flights.map((f) => f.priceNumeric)
priceNumerics(fl) == [i \in 1..Len(fl) |-> fl[i].priceNumeric]

\* flights.map((f) => f.totalDuration)
totalDurations(fl) == [i \in 1..Len(fl) |-> fl[i].totalDuration]

getPriceRange(fl) ==
  IF Len(fl) = 0 THEN <<PriceFallbackMin, PriceFallbackMax>>
  ELSE <<mathFloor(mathMin(priceNumerics(fl))), mathCeil(mathMax(priceNumerics(fl)))>>

getDurationRange(fl) ==
  IF Len(fl) = 0 THEN <<DurationFallbackMin, DurationFallbackMax>>
  ELSE <<mathFloor(mathMin(totalDurations(fl))), mathCeil(mathMax(totalDurations(fl)))>>

\* useMemo(() => getPriceRange(flights), [flights])
initialPriceRange == getPriceRange(flights)

\* useMemo(() => getDurationRange(flights), [flights])
initialDurationRange == getDurationRange(flights)

\* mutant: the price range is not looked at
hasActiveFiltersOf_noPrice(f, priceRange, durationRange) ==
  \/ f.stops # {}
  \/ f.airlines # {}
  \/ f.departureTimeRange[1] # HourMin
  \/ f.departureTimeRange[2] # HourMax
  \/ f.arrivalTimeRange[1] # HourMin
  \/ f.arrivalTimeRange[2] # HourMax
  \/ f.duration[1] # durationRange[1]
  \/ f.duration[2] # durationRange[2]

\* the hasActiveFilters expression of the hook's return value
hasActiveFiltersOf(f, priceRange, durationRange) ==
  \/ f.stops # {}
  \/ f.airlines # {}
  \/ f.priceRange[1] # priceRange[1]
  \/ f.priceRange[2] # priceRange[2]
  \/ f.departureTimeRange[1] # HourMin
  \/ f.departureTimeRange[2] # HourMax
  \/ f.arrivalTimeRange[1] # HourMin
  \/ f.arrivalTimeRange[2] # HourMax
  \/ f.duration[1] # durationRange[1]
  \/ f.duration[2] # durationRange[2]

hasActiveFilters == hasActiveFiltersOf(filters, initialPriceRange, initialDurationRange)

\* setFilters(prev => ({...prev, [key]: value}))
updateFilter(key, value) ==
  /\ filters' = [filters EXCEPT ![key] = value]
  /\ filterTouched' = TRUE
  /\ UNCHANGED <<searchParams, flights, sortField, sortDirection, currentPage, extVars>>

\* mutant: the ranges go back to the fallback pairs
resetFilters_fallbackBounds ==
  /\ filters' = [priceRange |-> <<PriceFallbackMin, PriceFallbackMax>>,
                 stops |-> {},
                 airlines |-> {},
                 departureTimeRange |-> <<HourMin, HourMax>>,
                 arrivalTimeRange |-> <<HourMin, HourMax>>,
                 duration |-> <<DurationFallbackMin, DurationFallbackMax>>]
  /\ filterTouched' = TRUE
  /\ UNCHANGED <<searchParams, flights, sortField, sortDirection, currentPage, extVars>>

\* resetFilters: the defaults for the bounds of the current flights
resetFilters ==
  /\ filters' = [priceRange |-> initialPriceRange,
                 stops |-> {},
                 airlines |-> {},
                 departureTimeRange |-> <<HourMin, HourMax>>,
                 arrivalTimeRange |-> <<HourMin, HourMax>>,
                 duration |-> initialDurationRange]
  /\ filterTouched' = TRUE
  /\ UNCHANGED <<searchParams, flights, sortField, sortDirection, currentPage, extVars>>

(***************************************************************************)
(* useFlightSort (useFlights.ts)                                           *)
(***************************************************************************)
\* the comparator handed to sorted.sort
compareFlights(a, b, field, direction) ==
  LET comparison ==
        CASE field = "price" -> a.priceNumeric - b.priceNumeric
          [] field = "duration" -> a.totalDuration - b.totalDuration
          [] field = "departure" -> getTime(a.departureTime) - getTime(b.departureTime)
          [] OTHER -> 0
  IN IF direction = "asc" THEN comparison ELSE -comparison

\* mutant: x goes in front of the elements it compares equal to
RECURSIVE insertSorted_beforeEquals(_, _, _, _)
insertSorted_beforeEquals(sorted, x, field, direction) ==
  IF sorted = <<>> THEN <<x>>
  ELSE IF compareFlights(Head(sorted), x, field, direction) >= 0 THEN <<x>> \o sorted
  ELSE <<Head(sorted)>> \o insertSorted_beforeEquals(Tail(sorted), x, field, direction)

\* one step of the stable sort: x goes behind every element that does not
\* compare greater than it
RECURSIVE insertSorted(_, _, _, _)
insertSorted(sorted, x, field, direction) ==
  IF sorted = <<>> THEN <<x>>
  ELSE IF compareFlights(Head(sorted), x, field, direction) > 0 THEN <<x>> \o sorted
  ELSE <<Head(sorted)>> \o insertSorted(Tail(sorted), x, field, direction)

\* Array.prototype.sort with a comparator: stable since ECMAScript 2019
RECURSIVE arraySort(_, _, _, _)
arraySort(done, rest, field, direction) ==
  IF rest = <<>> THEN done
  ELSE arraySort(insertSorted(done, Head(rest), field, direction), Tail(rest),
                 field, direction)

\* mutant: descending order obtained by reversing the ascending result
sortFlights_reverseDesc(fl, field, direction) ==
  IF direction = "asc" THEN arraySort(<<>>, fl, field, "asc")
  ELSE Reverse(arraySort(<<>>, fl, field, "asc"))

\* mutant: the direction is ignored, the result is always ascending
sortFlights_ignoreDirection(fl, field, direction) == arraySort(<<>>, fl, field, "asc")

\* sorted = [...flights]; sorted.sort(comparator); return sorted
sortFlights(fl, field, direction) == arraySort(<<>>, fl, field, direction)

sortedFlights == sortFlights(filteredFlights, sortField, sortDirection)

\* mutant: a new field keeps the direction of the field before
toggleSort_keepDirection(field) ==
  /\ IF field = sortField
       THEN /\ sortDirection' = (IF sortDirection = "asc" THEN "desc" ELSE "asc")
            /\ UNCHANGED sortField
       ELSE /\ sortField' = field
            /\ UNCHANGED sortDirection
  /\ UNCHANGED <<searchParams, flights, filters, currentPage, filterTouched, extVars>>

toggleSort(field) ==
  /\ IF field = sortField
       THEN /\ sortDirection' = (IF sortDirection = "asc" THEN "desc" ELSE "asc")
            /\ UNCHANGED sortField
       ELSE /\ sortField' = field
            /\ sortDirection' = "asc"
  /\ UNCHANGED <<searchParams, flights, filters, currentPage, filterTouched, extVars>>

(***************************************************************************)
(* FlightSearchPage (routes/index.tsx): pagination of the sorted flights   *)
(***************************************************************************)
pageSize == 10

\* mutant: the quotient is rounded down
ceilDiv_floor(n, d) == n \div d

\* Math.ceil(n / d) for n >= 0, d > 0
ceilDiv(n, d) == (n + d - 1) \div d

\* Array.prototype.slice(start, end): negative indices count from the end,
\* both ends are clamped to the array
slice(s, start, end) ==
  LET len == Len(s)
      from == IF start < 0 THEN Max2(len + start, 0) ELSE Min2(start, len)
      to == IF end < 0 THEN Max2(len + end, 0) ELSE Min2(end, len)
  IN SubSeq(s, from + 1, to)

totalFilteredPages == ceilDiv(Len(sortedFlights), pageSize)

\* mutant: the page index is taken as 0-based
startIdx_zeroBased(page) == page * pageSize

startIdx(page) == (page - 1) * pageSize

endIdx(page) == startIdx(page) + pageSize

\* the slice shown for a page index
pageSlice(sorted, page) == slice(sorted, startIdx(page), endIdx(page))

paginatedSortedFlights == pageSlice(sortedFlights, currentPage)

\* setCurrentPage of useState(1)
setCurrentPage(page) ==
  /\ currentPage' = page
  /\ UNCHANGED <<searchParams, flights, filters, sortField, sortDirection, filterTouched,
                 extVars>>

\* the pages the Pagination component offers for totalItems and pageSize:
\* the pages that exist, page 1 at least
PaginationPages(totalItems, size) == 1..Max2(1, ceilDiv(totalItems, size))

\* <Pagination totalItems={filteredFlights.length} onPageChange={setCurrentPage}>,
\* rendered only while there are flights
onPageChange(page) ==
  /\ flights # <<>>
  /\ page \in PaginationPages(Len(filteredFlights), pageSize)
  /\ setCurrentPage(page)

(***************************************************************************)
(* FlightSearchPage and useFlightSearch.  The search parameters live in    *)
(* the URL (Route.useSearch, validateSearch keeps origin, destination,     *)
(* departureDate, returnDate, adults and currencyCode).  A search under a  *)
(* new query key has no data until its response arrives (rawData is        *)
(* undefined, so the processed flights are []); the response then becomes  *)
(* the processed flights.  Filter and sort state are React state of other  *)
(* hooks and survive both steps.                                           *)
(***************************************************************************)
\* no origin, destination or departureDate in the URL: activeSearchParams is null
NoSearch == [origin |-> "", destination |-> "", departureDate |-> "",
             returnDate |-> "", adults |-> 1, currencyCode |-> ""]

BaseSearch == [origin |-> "JFK", destination |-> "LHR", departureDate |-> "d1",
               returnDate |-> "d8", adults |-> 1, currencyCode |-> "USD"]

\* the one search of the filter and sort specifications
BasicKeys == {BaseSearch}

\* the searches of the pagination specification: the base search and the
\* searches that differ from it in one field of the search key
SearchKeys ==
  {BaseSearch,
   [BaseSearch EXCEPT !.origin = "BOS"],
   [BaseSearch EXCEPT !.destination = "CDG"],
   [BaseSearch EXCEPT !.departureDate = "d2"],
   [BaseSearch EXCEPT !.returnDate = "d9"],
   [BaseSearch EXCEPT !.adults = 2],
   [BaseSearch EXCEPT !.currencyCode = "EUR"]}

\* the dependency list of the effect that resets the page
pageResetDeps(params) == <<params.origin, params.destination, params.departureDate>>

\* handleSearch: navigate puts the parameters into the URL; the effect sets
\* the page to 1 when one of its dependencies changed; the query key is
\* new, so no data is there until the response arrives
handleSearch(params) ==
  /\ params # searchParams
  /\ searchParams' = params
  /\ currentPage' = IF pageResetDeps(params) # pageResetDeps(searchParams)
                      THEN 1 ELSE currentPage
  /\ flights' = <<>>
  /\ filterTouched' = FALSE
  /\ UNCHANGED <<filters, sortField, sortDirection, extVars>>

\* the search of the filter and sort specifications
NewSearch == \E params \in BasicKeys : handleSearch(params)

\* the query is enabled only with search parameters
enabled == searchParams # NoSearch

\* the response of the pending request: rawData.data.map(processFlightOffer)
SearchResponse(fs) ==
  /\ enabled
  /\ flights = <<>>
  /\ flights' = fs
  /\ UNCHANGED <<searchParams, filters, sortField, sortDirection, currentPage,
                 filterTouched, extVars>>

\* queryKey: ['flights', searchParams]
queryKey(params) == <<"flights", params>>

\* an entry the cache does not hold
NoEntry == [status |-> "none", data |-> <<>>, isStale |-> FALSE, fetching |-> FALSE]

\* what a navigation carries: the fields of the search form, which sends
\* maxResults 50, or those of a link
Navigations ==
  { [origin |-> "JFK", destination |-> "LHR", departureDate |-> "d1",
     returnDate |-> "d8", adults |-> 1, maxResults |-> 50],
    [origin |-> "JFK", destination |-> "LHR", departureDate |-> "d1",
     returnDate |-> "d8", adults |-> 1, maxResults |-> 20],
    [origin |-> "JFK", destination |-> "CDG", departureDate |-> "d1",
     returnDate |-> "d8", adults |-> 1, maxResults |-> 50] }

\* a field of a search object, "" standing for undefined
searchField(search, field) ==
  IF field \in DOMAIN search THEN search[field] ELSE ""

\* mutant: maxResults is kept among the search parameters
validateSearch_keepMaxResults(search) ==
  [origin |-> searchField(search, "origin"),
   destination |-> searchField(search, "destination"),
   departureDate |-> searchField(search, "departureDate"),
   returnDate |-> searchField(search, "returnDate"),
   adults |-> IF "adults" \in DOMAIN search /\ search.adults # 0
                THEN search.adults ELSE 1,
   currencyCode |-> searchField(search, "currencyCode"),
   maxResults |-> searchField(search, "maxResults")]

\* validateSearch of the route: the six fields it keeps, adults falling back
\* to 1; maxResults is dropped
validateSearch(search) ==
  [origin |-> searchField(search, "origin"),
   destination |-> searchField(search, "destination"),
   departureDate |-> searchField(search, "departureDate"),
   returnDate |-> searchField(search, "returnDate"),
   adults |-> IF "adults" \in DOMAIN search /\ search.adults # 0
                THEN search.adults ELSE 1,
   currencyCode |-> searchField(search, "currencyCode")]

\* (prev) => ({ ...prev, ...params })
mergeSearch(prev, params) ==
  [field \in (DOMAIN prev) \cup (DOMAIN params) |->
     IF field \in DOMAIN params THEN params[field] ELSE prev[field]]

\* the keys the cache is indexed by in the model: every search the
\* navigations lead to, with and without maxResults
CacheKeys ==
  {queryKey(validateSearch(search)) : search \in Navigations}
    \cup {queryKey(validateSearch_keepMaxResults(search)) : search \in Navigations}

\* state after the first render: no search parameters, no response
Init ==
  /\ searchParams = NoSearch
  /\ flights = <<>>
  /\ filters = InitialFilters
  /\ sortField = "price"
  /\ sortDirection = "asc"
  /\ currentPage = 1
  /\ filterTouched = FALSE
  /\ queryCache = [key \in CacheKeys |-> NoEntry]
  /\ networkRequests = [key \in CacheKeys |-> 0]
  /\ locationSearch = <<>>
  /\ sharedLink = <<>>
  /\ open = FALSE
  /\ name = ""
  /\ cardNumber = <<>>
  /\ bookingState = [status |-> "form"]
  /\ confirmation = "none"

(***************************************************************************)
(* Inputs of the filter specification Spec                                 *)
(***************************************************************************)
\* what a response can hold: the derived fields of one offer, without its id
FlightKinds ==
  { [priceNumeric |-> 100, totalStops |-> 0, mainAirline |-> "AA",
     departureTime |-> 8, arrivalTime |-> 11, totalDuration |-> 180],
    [priceNumeric |-> 250, totalStops |-> 1, mainAirline |-> "BA",
     departureTime |-> 23, arrivalTime |-> 30, totalDuration |-> 420],
    [priceNumeric |-> 400, totalStops |-> 2, mainAirline |-> "AA",
     departureTime |-> 32, arrivalTime |-> 47, totalDuration |-> 900],
    [priceNumeric |-> 250, totalStops |-> 3, mainAirline |-> "DL",
     departureTime |-> 0, arrivalTime |-> 12, totalDuration |-> 720] }

\* the offers of one response carry distinct ids: the id is the position
WithIds(ks) ==
  [i \in 1..Len(ks) |->
     [id |-> i,
      priceNumeric |-> ks[i].priceNumeric,
      totalStops |-> ks[i].totalStops,
      mainAirline |-> ks[i].mainAirline,
      departureTime |-> ks[i].departureTime,
      arrivalTime |-> ks[i].arrivalTime,
      totalDuration |-> ks[i].totalDuration]]

SeqsUpTo(S, n) == UNION {[1..k -> S] : k \in 0..n}

FlightInputs == {WithIds(ks) : ks \in SeqsUpTo(FlightKinds, MaxFlights)}

PriceRanges == {<<0, 1000>>, <<100, 250>>, <<250, 400>>}

StopsSelections == {{}, {"0", "1"}, {"0", "1", "2+"}}

AirlineSelections == {{}, {"AA", "BA"}}

DepartureRanges == {<<0, 23>>, <<8, 12>>}

ArrivalRanges == {<<0, 23>>, <<11, 23>>}

DurationRanges == {<<0, 1440>>, <<180, 720>>}

Next ==
  \/ NewSearch
  \/ \E fs \in FlightInputs : SearchResponse(fs)
  \/ \E v \in PriceRanges : updateFilter("priceRange", v)
  \/ \E v \in StopsSelections : updateFilter("stops", v)
  \/ \E v \in AirlineSelections : updateFilter("airlines", v)
  \/ \E v \in DepartureRanges : updateFilter("departureTimeRange", v)
  \/ \E v \in ArrivalRanges : updateFilter("arrivalTimeRange", v)
  \/ \E v \in DurationRanges : updateFilter("duration", v)

Spec == Init /\ [][Next]_vars

(***************************************************************************)
(* Claims on applyFilters, checked under Spec                              *)
(***************************************************************************)
\* the six dimensions as the contract words them
PriceWithin(flight, f) ==
  f.priceRange[1] <= flight.priceNumeric /\ flight.priceNumeric <= f.priceRange[2]

\* the label the contract gives to a stop count
ContractStopLabel(n) ==
  IF n = 0 THEN "0" ELSE IF n = 1 THEN "1" ELSE IF n >= 2 THEN "2+" ELSE "none"

StopsSelected(flight, f) ==
  f.stops = {} \/ ContractStopLabel(flight.totalStops) \in f.stops

AirlineSelected(flight, f) ==
  f.airlines = {} \/ flight.mainAirline \in f.airlines

DepartureWithin(flight, f) ==
  /\ f.departureTimeRange[1] <= flight.departureTime % 24
  /\ flight.departureTime % 24 <= f.departureTimeRange[2]

ArrivalWithin(flight, f) ==
  /\ f.arrivalTimeRange[1] <= flight.arrivalTime % 24
  /\ flight.arrivalTime % 24 <= f.arrivalTimeRange[2]

DurationWithin(flight, f) ==
  f.duration[1] <= flight.totalDuration /\ flight.totalDuration <= f.duration[2]

AllSixHold(flight, f) ==
  /\ PriceWithin(flight, f)
  /\ StopsSelected(flight, f)
  /\ AirlineSelected(flight, f)
  /\ DepartureWithin(flight, f)
  /\ ArrivalWithin(flight, f)
  /\ DurationWithin(flight, f)

\* C1: a flight is in the filtered list if and only if all six dimensions
\* hold at once (every range inclusive at both ends), and nothing else is in
\* the filtered list.
C1_RetainedIffAllSix ==
  /\ \A i \in 1..Len(flights) :
       (flights[i] \in Range(filteredFlights)) <=> AllSixHold(flights[i], filters)
  /\ Range(filteredFlights) \subseteq Range(flights)

\* a flight priced exactly at the lower price bound and a flight lasting
\* exactly the upper duration bound are retained while another flight is not
C1_Witness ==
  /\ \E i \in 1..Len(flights) :
       /\ flights[i].priceNumeric = filters.priceRange[1]
       /\ flights[i] \in Range(filteredFlights)
  /\ \E i \in 1..Len(flights) :
       /\ flights[i].totalDuration = filters.duration[2]
       /\ flights[i] \in Range(filteredFlights)
  /\ \E i \in 1..Len(flights) : flights[i] \notin Range(filteredFlights)

\* filters that restrict nothing but the stops
OnlyStops(sel) == [InitialFilters EXCEPT !.stops = sel]

PricesOf(fl) == [i \in 1..Len(fl) |-> fl[i].priceNumeric]

StopsOf(fl) == [i \in 1..Len(fl) |-> fl[i].totalStops]

\* C2: with a non-empty stops selection and nothing else restricting, the
\* retained flights are exactly those whose label ("0" for 0 stops, "1" for
\* 1 stop, "2+" for 2 or more) is selected; the flights priced 100, 250, 400
\* with 0, 1, 2 stops under stops = {"0","1"} give the flights priced 100, 250.
C2_StopLabels ==
  /\ \A sel \in (SUBSET StopLabels) \ {{}} :
       applyFilters(flights, OnlyStops(sel))
         = SelectSeq(flights, LAMBDA x : ContractStopLabel(x.totalStops) \in sel)
  /\ (/\ PricesOf(flights) = <<100, 250, 400>>
      /\ StopsOf(flights) = <<0, 1, 2>>
      /\ filters = OnlyStops({"0", "1"}))
     => PricesOf(filteredFlights) = <<100, 250>>

\* the scenario of the contract, with the stops selection made by the user
C2_Witness ==
  /\ PricesOf(flights) = <<100, 250, 400>>
  /\ StopsOf(flights) = <<0, 1, 2>>
  /\ filters = OnlyStops({"0", "1"})
  /\ Len(filteredFlights) = 2

\* C3: an empty stops selection filters like the selection of all three
\* labels, and an empty airlines selection like the selection of every
\* carrier code present in the flights, whatever the other filters are.
C3_EmptySelectionNoConstraint ==
  /\ applyFilters(flights, [filters EXCEPT !.stops = {}])
       = applyFilters(flights, [filters EXCEPT !.stops = StopLabels])
  /\ applyFilters(flights, [filters EXCEPT !.airlines = {}])
       = applyFilters(flights, [filters EXCEPT !.airlines = getUniqueAirlines(flights)])

\* both selections are empty, three carriers are present, and the ranges
\* drop some flights but not all
C3_Witness ==
  /\ filters.stops = {}
  /\ filters.airlines = {}
  /\ Cardinality(getUniqueAirlines(flights)) = 3
  /\ filteredFlights # <<>>
  /\ filteredFlights # flights

\* bounds a narrowed range can take
PriceBounds == {0, 100, 101, 250, 400, 1000}

HourBounds == {0, 8, 11, 12, 23}

DurationBounds == {0, 180, 420, 720, 1440}

\* a range with its lower bound raised or its upper bound lowered
NarrowedRanges(r, B) ==
  {<<lo, r[2]>> : lo \in {b \in B : b > r[1]}}
    \cup {<<r[1], hi>> : hi \in {b \in B : b < r[2]}}

\* a selection with one label removed that stays non-empty
NarrowedSelections(sel) == {sel \ {l} : l \in sel} \ {{}}

\* every FilterState one narrowing step away from f
Narrowings(f) ==
  {[f EXCEPT !.priceRange = r] : r \in NarrowedRanges(f.priceRange, PriceBounds)}
    \cup {[f EXCEPT !.departureTimeRange = r] :
            r \in NarrowedRanges(f.departureTimeRange, HourBounds)}
    \cup {[f EXCEPT !.arrivalTimeRange = r] :
            r \in NarrowedRanges(f.arrivalTimeRange, HourBounds)}
    \cup {[f EXCEPT !.duration = r] : r \in NarrowedRanges(f.duration, DurationBounds)}
    \cup {[f EXCEPT !.stops = sel] : sel \in NarrowedSelections(f.stops)}
    \cup {[f EXCEPT !.airlines = sel] : sel \in NarrowedSelections(f.airlines)}

\* C4: narrowing one range, or removing a label from a selection that stays
\* non-empty, gives a filtered list that is a sub-list of the previous one,
\* so the filtered count does not increase.
C4_FilterMonotonic ==
  LET before == filteredFlights
  IN \A g \in Narrowings(filters) :
       LET after == applyFilters(flights, g)
       IN IsSubsequence(after, before) /\ Len(after) <= Len(before)

\* a narrowing of a range and a narrowing of a selection that each drop some
\* but not all of the flights retained so far
C4_Witness ==
  /\ \E r \in NarrowedRanges(filters.priceRange, PriceBounds) :
       LET narrowed == applyFilters(flights, [filters EXCEPT !.priceRange = r])
       IN narrowed # <<>> /\ Len(narrowed) < Len(filteredFlights)
  /\ \E sel \in NarrowedSelections(filters.stops) :
       LET narrowed == applyFilters(flights, [filters EXCEPT !.stops = sel])
       IN narrowed # <<>> /\ Len(narrowed) < Len(filteredFlights)

\* C5: filtering the filtered list again with the same FilterState changes
\* nothing.
C5_FilterIdempotent ==
  applyFilters(applyFilters(flights, filters), filters) = applyFilters(flights, filters)

\* the filter dropped some flights and kept at least two
C5_Witness ==
  /\ Len(filteredFlights) >= 2
  /\ Len(filteredFlights) < Len(flights)

\* C6: the filtered list is a sub-list of the flights: retained flights keep
\* their relative order, none is duplicated, none is invented.
C6_OrderPreserving ==
  /\ IsSubsequence(filteredFlights, flights)
  /\ Cardinality(Range(filteredFlights)) = Len(filteredFlights)

\* the first and the last of three flights are retained, the middle one is not
C6_Witness ==
  /\ Len(flights) = 3
  /\ filteredFlights = <<flights[1], flights[3]>>

(***************************************************************************)
(* Inputs of the sort specification SpecSort: flights that tie on each     *)
(* sort key with another flight and differ from it on the other keys.      *)
(***************************************************************************)
SortKinds ==
  { [priceNumeric |-> 120, totalStops |-> 0, mainAirline |-> "AA",
     departureTime |-> 9, arrivalTime |-> 10, totalDuration |-> 60],
    [priceNumeric |-> 120, totalStops |-> 1, mainAirline |-> "BA",
     departureTime |-> 7, arrivalTime |-> 9, totalDuration |-> 90],
    [priceNumeric |-> 100, totalStops |-> 0, mainAirline |-> "DL",
     departureTime |-> 7, arrivalTime |-> 8, totalDuration |-> 60] }

SortInputs == {WithIds(ks) : ks \in SeqsUpTo(SortKinds, MaxSortFlights)}

NextSort ==
  \/ NewSearch
  \/ \E fs \in SortInputs : SearchResponse(fs)
  \/ \E field \in SortFields : toggleSort(field)

SpecSort == Init /\ [][NextSort]_vars

(***************************************************************************)
(* Claims on the sort, checked under SpecSort                              *)
(***************************************************************************)
\* the value a sort field compares
SortKey(flight, field) ==
  CASE field = "price" -> flight.priceNumeric
    [] field = "duration" -> flight.totalDuration
    [] field = "departure" -> flight.departureTime

\* the index of an element in a sequence without duplicates
PositionIn(s, x) == CHOOSE i \in 1..Len(s) : s[i] = x

\* C7: two flights with equal values of the active sort key stand in the
\* sorted list in the same relative order as in the list handed to the sort,
\* for every sort field and both directions.
C7_SortStable ==
  \A i, j \in 1..Len(sortedFlights) :
    (/\ i < j
     /\ SortKey(sortedFlights[i], sortField) = SortKey(sortedFlights[j], sortField))
    => PositionIn(filteredFlights, sortedFlights[i])
         < PositionIn(filteredFlights, sortedFlights[j])

\* a descending sort that moved flights and left flights with equal keys
C7_Witness ==
  /\ sortDirection = "desc"
  /\ sortedFlights # filteredFlights
  /\ \E i, j \in 1..Len(sortedFlights) :
       /\ i < j
       /\ SortKey(sortedFlights[i], sortField) = SortKey(sortedFlights[j], sortField)
       /\ sortedFlights[i] # sortedFlights[j]

\* five flights, all priced 120, none filtered out
FiveFlightsPriced120 ==
  /\ Len(flights) = 5
  /\ \A i \in 1..Len(flights) : flights[i].priceNumeric = 120
  /\ filteredFlights = flights

\* C8 as stated: for 5 flights all priced 120 the descending price sort is
\* the reverse of the ascending price sort.
C8_DescIsReverseOfAsc ==
  FiveFlightsPriced120
    => sortFlights(filteredFlights, "price", "desc")
         = Reverse(sortFlights(filteredFlights, "price", "asc"))

\* C8 amended: for 5 flights all priced 120 the descending price sort and the
\* ascending price sort both return the flights in their input order.
C8_DescEqualsAscOnTies ==
  FiveFlightsPriced120
    => /\ sortFlights(filteredFlights, "price", "desc") = filteredFlights
       /\ sortFlights(filteredFlights, "price", "asc") = filteredFlights

\* the five flights are on screen sorted by price, descending, and they are
\* not all alike
C8_Witness ==
  /\ FiveFlightsPriced120
  /\ sortField = "price"
  /\ sortDirection = "desc"
  /\ flights[1].totalDuration # flights[5].totalDuration

\* C9: the sorted list is a permutation of the list handed to the sort,
\* non-decreasing in the active key when ascending and non-increasing when
\* descending.
C9_SortedPermutation ==
  /\ Len(sortedFlights) = Len(filteredFlights)
  /\ Range(sortedFlights) = Range(filteredFlights)
  /\ Cardinality(Range(sortedFlights)) = Len(sortedFlights)
  /\ \A i \in 1..(Len(sortedFlights) - 1) :
       IF sortDirection = "asc"
         THEN SortKey(sortedFlights[i], sortField) <= SortKey(sortedFlights[i + 1], sortField)
         ELSE SortKey(sortedFlights[i], sortField) >= SortKey(sortedFlights[i + 1], sortField)

\* a descending sort by departure that moved flights with different keys
C9_Witness ==
  /\ sortDirection = "desc"
  /\ sortField = "departure"
  /\ sortedFlights # filteredFlights
  /\ Len(sortedFlights) >= 3
  /\ SortKey(sortedFlights[1], sortField) > SortKey(sortedFlights[Len(sortedFlights)], sortField)

(***************************************************************************)
(* Inputs of the pagination specification SpecPage: responses of every     *)
(* length up to MaxPageFlights, so that the sorted list spans three pages. *)
(***************************************************************************)
PageFlight(i) ==
  [id |-> i,
   priceNumeric |-> 100 + 50 * ((i * 3) % 7),
   totalStops |-> i % 3,
   mainAirline |-> IF i % 2 = 0 THEN "AA" ELSE "BA",
   departureTime |-> (i * 5) % 48,
   arrivalTime |-> ((i * 5) % 48) + 3,
   totalDuration |-> 60 + 30 * (i % 5)]

PageInputs == {[i \in 1..n |-> PageFlight(i)] : n \in 0..MaxPageFlights}

NextPage ==
  \/ \E params \in SearchKeys : handleSearch(params)
  \/ \E fs \in PageInputs : SearchResponse(fs)
  \/ \E v \in StopsSelections : updateFilter("stops", v)
  \/ \E field \in SortFields : toggleSort(field)
  \/ \E page \in 1..MaxPage : onPageChange(page)

SpecPage == Init /\ [][NextPage]_vars

(***************************************************************************)
(* Claims on pagination, checked under SpecPage                            *)
(***************************************************************************)
\* the slices of pages 1..k, one after the other
RECURSIVE ConcatPages(_, _)
ConcatPages(sorted, k) ==
  IF k = 0 THEN <<>> ELSE ConcatPages(sorted, k - 1) \o pageSlice(sorted, k)

\* C10: the slices of pages 1..totalPages, concatenated in order, are the
\* filtered and sorted list: every flight once, in the same order.
C10_PaginationComplete ==
  ConcatPages(sortedFlights, totalFilteredPages) = sortedFlights

\* the user is on the last page of a filtered list that fills more than one
\* page and whose last page is not full
C10_Witness ==
  /\ Len(sortedFlights) > pageSize
  /\ Len(sortedFlights) % pageSize # 0
  /\ Len(sortedFlights) < Len(flights)
  /\ currentPage = totalFilteredPages
  /\ paginatedSortedFlights # <<>>

\* C11: the page count is the ceiling of (sorted count / pageSize): the least
\* number of pages of pageSize that hold every flight; each page before the
\* last holds pageSize flights and the last page holds the rest; 23 flights
\* give 3 pages and 3 flights on page 3.
C11_PageCountAndSizes ==
  LET n == Len(sortedFlights)
      pages == totalFilteredPages
  IN /\ pages >= 0
     /\ pages * pageSize >= n
     /\ pages > 0 => (pages - 1) * pageSize < n
     /\ \A p \in 1..(pages - 1) : Len(pageSlice(sortedFlights, p)) = pageSize
     /\ pages > 0 => Len(pageSlice(sortedFlights, pages)) = n - (pages - 1) * pageSize
     /\ n = 23 => pages = 3 /\ Len(pageSlice(sortedFlights, 3)) = 3

\* 23 flights pass the filters and the user is on page 3, which shows 3
C11_Witness ==
  /\ Len(sortedFlights) = 23
  /\ currentPage = 3
  /\ Len(paginatedSortedFlights) = 3

\* the pagination specification with one search only: the search key never
\* changes once it is set
NextOneSearch ==
  \/ NewSearch
  \/ \E fs \in PageInputs : SearchResponse(fs)
  \/ \E v \in StopsSelections : updateFilter("stops", v)
  \/ \E field \in SortFields : toggleSort(field)
  \/ \E page \in 1..MaxPage : onPageChange(page)

SpecOneSearch == Init /\ [][NextOneSearch]_vars

\* C12: in every reachable state the page index lies in
\* [1, max(1, totalPages)].
C12_PageIndexWithinPages ==
  1 <= currentPage /\ currentPage <= Max2(1, totalFilteredPages)

\* C13: every change of the search key sets the page index to 1.
C13_KeyChangeResetsPage ==
  [][searchParams' # searchParams => currentPage' = 1]_vars

(***************************************************************************)
(* Price aggregation: generatePriceData, calculatePriceStats (Helper.ts),  *)
(* usePriceTrend (useFlights.ts), chartData (PriceChart.tsx)               *)
(***************************************************************************)
\* the calendar day of an instant: toISOString().split('T')[0]
isoDate(t) == t \div 24

generatePriceData(fl) ==
  [i \in 1..Len(fl) |->
     [price |-> fl[i].priceNumeric,
      date |-> isoDate(fl[i].departureTime),
      airline |-> fl[i].mainAirline,
      stops |-> fl[i].totalStops]]

\* prices.reduce((sum, price) => sum + price, 0)
RECURSIVE reduceSum(_)
reduceSum(prices) ==
  IF prices = <<>> THEN 0 ELSE Head(prices) + reduceSum(Tail(prices))

\* a quotient a / b, kept exact as a fraction
divide(a, b) == [num |-> a, den |-> b]

calculatePriceStats(fl) ==
  IF Len(fl) = 0 THEN [lowest |-> 0, highest |-> 0, average |-> divide(0, 1)]
  ELSE LET prices == priceNumerics(fl)
       IN [lowest |-> mathMin(prices),
           highest |-> mathMax(prices),
           average |-> divide(reduceSum(prices), Len(prices))]

\* mutant: the statistics are taken over all flights
usePriceTrend_statsOfAll(allFlights, filtered) ==
  LET stats == calculatePriceStats(allFlights)
  IN [current |-> generatePriceData(allFlights),
      filtered |-> generatePriceData(filtered),
      lowest |-> stats.lowest,
      highest |-> stats.highest,
      average |-> stats.average]

usePriceTrend(allFlights, filtered) ==
  LET stats == calculatePriceStats(filtered)
  IN [current |-> generatePriceData(allFlights),
      filtered |-> generatePriceData(filtered),
      lowest |-> stats.lowest,
      highest |-> stats.highest,
      average |-> stats.average]

\* index.tsx: usePriceTrend(allFlights, filteredFlights)
priceTrend == usePriceTrend(flights, filteredFlights)

bucketSize == 50

\* one step of sort((a, b) => a - b)
RECURSIVE insertNumber(_, _)
insertNumber(sorted, x) ==
  IF sorted = <<>> THEN <<x>>
  ELSE IF Head(sorted) - x > 0 THEN <<x>> \o sorted
  ELSE <<Head(sorted)>> \o insertNumber(Tail(sorted), x)

\* data.map(d => d.price).sort((a, b) => a - b)
RECURSIVE sortNumbers(_, _)
sortNumbers(done, rest) ==
  IF rest = <<>> THEN done
  ELSE sortNumbers(insertNumber(done, Head(rest)), Tail(rest))

sortedPrices(data) == sortNumbers(<<>>, [i \in 1..Len(data) |-> data[i].price])

\* Math.floor(price / bucketSize) * bucketSize
bucketOf(price) == (price \div bucketSize) * bucketSize

\* mutant: the upper end is rounded down
bucketMax_floor(allPrices) == (mathMax(allPrices) \div bucketSize) * bucketSize

\* Math.ceil(Math.max(...allPrices) / bucketSize) * bucketSize
bucketMax(allPrices) == ceilDiv(mathMax(allPrices), bucketSize) * bucketSize

\* Math.floor(Math.min(...allPrices) / bucketSize) * bucketSize
bucketMin(allPrices) == (mathMin(allPrices) \div bucketSize) * bucketSize

\* mutant: the loop stops before max
bucketKeys_exclusiveMax(min, max) ==
  {i \in min..max : (i - min) % bucketSize = 0 /\ i < max}

\* for (let i = min; i <= max; i += bucketSize) buckets[i] = ...
bucketKeys(min, max) == {i \in min..max : (i - min) % bucketSize = 0}

\* the counting loops and Object.entries(buckets).map: integer keys come out
\* in ascending order; a price whose bucket is no key is not counted
bucketEntries(allPrices, filteredPrices) ==
  LET min == bucketMin(allPrices)
      max == bucketMax(allPrices)
      keys == bucketKeys(min, max)
      count(prices, key) ==
        Cardinality({j \in 1..Len(prices) : bucketOf(prices[j]) = key})
  IN [i \in 1..Cardinality(keys) |->
        LET key == min + (i - 1) * bucketSize
        IN [price |-> key,
            allFlights |-> count(allPrices, key),
            filtered |-> count(filteredPrices, key)]]

\* mutant: the chart is empty when the filtered data is empty
chartData_emptyWhenNoFiltered(pt) ==
  IF Len(pt.filtered) = 0 THEN <<>>
  ELSE bucketEntries(sortedPrices(pt.current), sortedPrices(pt.filtered))

chartData(pt) ==
  IF Len(pt.current) = 0 THEN <<>>
  ELSE bucketEntries(sortedPrices(pt.current), sortedPrices(pt.filtered))

(***************************************************************************)
(* Specification of a session with the chart: prices off the bucket        *)
(* corners, one price above the fallback range, one duration above the     *)
(* fallback range                                                          *)
(***************************************************************************)
MaxSessionFlights == 3

SessionKinds ==
  { [priceNumeric |-> 99, totalStops |-> 0, mainAirline |-> "AA",
     departureTime |-> 8, arrivalTime |-> 11, totalDuration |-> 180],
    [priceNumeric |-> 150, totalStops |-> 1, mainAirline |-> "BA",
     departureTime |-> 23, arrivalTime |-> 30, totalDuration |-> 420],
    [priceNumeric |-> 151, totalStops |-> 2, mainAirline |-> "AA",
     departureTime |-> 32, arrivalTime |-> 47, totalDuration |-> 900],
    [priceNumeric |-> 1200, totalStops |-> 1, mainAirline |-> "DL",
     departureTime |-> 0, arrivalTime |-> 25, totalDuration |-> 1500] }

SessionInputs == {WithIds(ks) : ks \in SeqsUpTo(SessionKinds, MaxSessionFlights)}

SessionPriceRanges == {<<150, 1200>>, <<2000, 3000>>}

SessionStops == {{}, {"0"}}

\* a control of the FilterPanel, rendered only next to a result list
onFilterChange(key, value) ==
  /\ flights # <<>>
  /\ updateFilter(key, value)

\* the Clear All button, rendered only while hasActiveFilters
onClearAll ==
  /\ flights # <<>>
  /\ hasActiveFilters
  /\ resetFilters

NextSession ==
  \/ NewSearch
  \/ \E fs \in SessionInputs : SearchResponse(fs)
  \/ \E v \in SessionPriceRanges : onFilterChange("priceRange", v)
  \/ \E v \in SessionStops : onFilterChange("stops", v)
  \/ onClearAll

SpecSession == Init /\ [][NextSession]_vars

\* the sum of one count over the buckets
RECURSIVE SumOf(_, _)
SumOf(buckets, field) ==
  IF buckets = <<>> THEN 0 ELSE Head(buckets)[field] + SumOf(Tail(buckets), field)

\* C14: the all-flights counts of the buckets add up to the number of
\* flights, and the filtered counts to the number of filtered flights.
C14_BucketConservation ==
  LET buckets == chartData(priceTrend)
  IN /\ SumOf(buckets, "allFlights") = Len(flights)
     /\ SumOf(buckets, "filtered") = Len(filteredFlights)

\* the highest price sits on a bucket corner, and the filter keeps some
\* flights and drops others
C14_Witness ==
  /\ Len(flights) = 3
  /\ Len(filteredFlights) = 2
  /\ \E i \in 1..Len(flights) : flights[i].priceNumeric = 150
  /\ \A i \in 1..Len(flights) : flights[i].priceNumeric <= 150
  /\ \E i \in 1..Len(flights) : flights[i].priceNumeric = 99
  /\ C14_BucketConservation

\* the prices of a flight list, as a set
PriceSet(fl) == {fl[i].priceNumeric : i \in 1..Len(fl)}

\* the number of flights of fl priced from low up to, not including, high
CountIn(fl, low, high) ==
  Cardinality({i \in 1..Len(fl) : low <= fl[i].priceNumeric /\ fl[i].priceNumeric < high})

ZeroStats(pt) ==
  /\ pt.lowest = 0
  /\ pt.highest = 0
  /\ pt.average.num = 0

\* C15: with no flights at all the bucket list is empty and the three
\* statistics are zero; with flights of which none passes the filters the
\* statistics are zero and the bucket list is non-empty, holding the counts
\* of all flights and no filtered flight.
C15_DegenerateAggregation ==
  LET pt == priceTrend
      buckets == chartData(pt)
  IN /\ (flights = <<>> /\ filteredFlights = <<>>) =>
          (buckets = <<>> /\ ZeroStats(pt))
     /\ (flights # <<>> /\ filteredFlights = <<>>) =>
          /\ ZeroStats(pt)
          /\ buckets # <<>>
          /\ SumOf(buckets, "allFlights") = Len(flights)
          /\ \A i \in 1..Len(buckets) :
               /\ buckets[i].filtered = 0
               /\ buckets[i].allFlights =
                    CountIn(flights, buckets[i].price, buckets[i].price + bucketSize)

\* three flights came back and the price filter lets none through
C15_Witness ==
  /\ Len(flights) = 3
  /\ filteredFlights = <<>>
  /\ filterTouched
  /\ Len(chartData(priceTrend)) > 1

\* C16: there is one bucket for every 50-step from floor(min/50)*50 up to
\* ceil(max/50)*50 inclusive, in ascending order, and a flight priced p is
\* counted in the bucket floor(p/50)*50.
C16_BucketRange ==
  flights # <<>> =>
    LET buckets == chartData(priceTrend)
        lowestPrice == CHOOSE p \in PriceSet(flights) : \A q \in PriceSet(flights) : p <= q
        highestPrice == CHOOSE p \in PriceSet(flights) : \A q \in PriceSet(flights) : p >= q
        first == CHOOSE k \in 0..lowestPrice :
                   k % 50 = 0 /\ k <= lowestPrice /\ lowestPrice < k + 50
        last == CHOOSE k \in highestPrice..(highestPrice + 50) :
                  k % 50 = 0 /\ k - 50 < highestPrice /\ highestPrice <= k
    IN /\ Len(buckets) = ((last - first) \div 50) + 1
       /\ \A i \in 1..Len(buckets) :
            /\ buckets[i].price = first + (i - 1) * 50
            /\ buckets[i].allFlights =
                 CountIn(flights, buckets[i].price, buckets[i].price + 50)
            /\ buckets[i].filtered =
                 CountIn(filteredFlights, buckets[i].price, buckets[i].price + 50)

\* prices 99 and 151: buckets 50, 100, 150 and 200, the second and the last
\* without a flight
C16_Witness ==
  /\ PriceSet(flights) = {99, 151}
  /\ Len(chartData(priceTrend)) = 4
  /\ chartData(priceTrend)[2].allFlights = 0
  /\ chartData(priceTrend)[4].price = 200
  /\ filteredFlights # <<>>

\* C17: lowest, highest and average are taken over the filtered flights
\* only; when there is a filtered flight, lowest and highest are its least
\* and greatest price, average is the sum of the filtered prices divided by
\* their number, and lowest <= average <= highest.
C17_StatsOverFiltered ==
  filteredFlights # <<>> =>
    LET pt == priceTrend
        prices == PriceSet(filteredFlights)
        n == Len(filteredFlights)
        total == SumOf([i \in 1..n |-> [p |-> filteredFlights[i].priceNumeric]], "p")
    IN /\ pt.lowest \in prices /\ \A q \in prices : pt.lowest <= q
       /\ pt.highest \in prices /\ \A q \in prices : pt.highest >= q
       /\ pt.average.num * n = total * pt.average.den
       /\ pt.lowest * pt.average.den <= pt.average.num
       /\ pt.average.num <= pt.highest * pt.average.den

\* the cheapest and the dearest flight are filtered out, two different
\* prices remain
C17_Witness ==
  /\ PriceSet(flights) = {99, 150, 1200}
  /\ PriceSet(filteredFlights) = {150, 1200}
  /\ priceTrend.lowest = 150
  /\ priceTrend.highest = 1200
  /\ priceTrend.average = divide(1350, 2)

\* the least and greatest value of a non-empty set of numbers
Least(S) == CHOOSE x \in S : \A y \in S : x <= y

Greatest(S) == CHOOSE x \in S : \A y \in S : x >= y

\* the default price bounds of a flight set: its least and greatest price,
\* the fallback pair when there is no flight
DefaultPriceBounds(fl) ==
  IF fl = <<>> THEN <<0, 1000>>
  ELSE <<Least(PriceSet(fl)), Greatest(PriceSet(fl))>>

\* the default duration bounds of a flight set
DefaultDurationBounds(fl) ==
  LET durations == {fl[i].totalDuration : i \in 1..Len(fl)}
  IN IF fl = <<>> THEN <<0, 1440>>
     ELSE <<Least(durations), Greatest(durations)>>

\* C18: hasActiveFilters is true exactly when the stops or the airlines
\* selection is non-empty, or the departure or arrival hour range is not
\* [0,23], or the price or duration range is not the default bounds of the
\* current flight set.
C18_ActiveIffNonDefault ==
  hasActiveFilters <=>
    \/ filters.stops # {}
    \/ filters.airlines # {}
    \/ filters.departureTimeRange # <<0, 23>>
    \/ filters.arrivalTimeRange # <<0, 23>>
    \/ filters.priceRange # DefaultPriceBounds(flights)
    \/ filters.duration # DefaultDurationBounds(flights)

\* after a reset the user narrows the price range and nothing else
C18_Witness ==
  /\ flights # <<>>
  /\ filterTouched
  /\ filters.stops = {}
  /\ filters.duration = DefaultDurationBounds(flights)
  /\ filters.priceRange # DefaultPriceBounds(flights)
  /\ hasActiveFilters

\* C19: as long as the user has not changed or reset a filter for the
\* current search, the price and duration ranges are the default bounds of
\* the search's flights; with a non-empty result no flight is filtered out
\* and hasActiveFilters is false.
C19_UntouchedFiltersAreBounds ==
  ~filterTouched =>
    /\ filters.priceRange = DefaultPriceBounds(flights)
    /\ filters.duration = DefaultDurationBounds(flights)
    /\ flights # <<>> => (filteredFlights = flights /\ ~hasActiveFilters)

(***************************************************************************)
(* Normalization of a raw offer: parseDuration, processFlightOffer         *)
(* (Helper.ts); a string is the sequence of its characters                 *)
(***************************************************************************)
DigitChars == <<"0", "1", "2", "3", "4", "5", "6", "7", "8", "9">>

\* \d
isDigit(c) == \E v \in 1..Len(DigitChars) : DigitChars[v] = c

digitValue(c) == (CHOOSE v \in 1..Len(DigitChars) : DigitChars[v] = c) - 1

\* parseInt: the decimal value of the leading digits, whatever follows them
RECURSIVE parseIntFrom(_, _)
parseIntFrom(chars, value) ==
  IF chars = <<>> \/ ~isDigit(Head(chars)) THEN value
  ELSE parseIntFrom(Tail(chars), value * 10 + digitValue(Head(chars)))

parseInt(chars) == parseIntFrom(chars, 0)

\* where the regular expression starts to match: the first "PT", 0 if none
matchStart(duration) ==
  LET starts == {i \in 1..(Len(duration) - 1) : duration[i] = "P" /\ duration[i + 1] = "T"}
  IN IF starts = {} THEN 0 ELSE CHOOSE i \in starts : \A j \in starts : i <= j

\* an optional group (\d+X)? tried at position from: the digits and the
\* letter it captures, <<>> when it does not take part in the match
captureGroup(duration, from, letter) ==
  LET runs == {j \in from..Len(duration) : \A k \in from..j : isDigit(duration[k])}
      last == IF runs = {} THEN from - 1 ELSE CHOOSE j \in runs : \A k \in runs : j >= k
  IN IF last >= from /\ last + 1 <= Len(duration) /\ duration[last + 1] = letter
       THEN SubSeq(duration, from, last + 1)
       ELSE <<>>

\* mutant: the minutes group is tried where the hours group was tried
parseDuration_minutesAtStart(duration) ==
  LET start == matchStart(duration)
      hoursGroup == captureGroup(duration, start + 2, "H")
      minutesGroup == captureGroup(duration, start + 2, "M")
      hours == IF hoursGroup # <<>> THEN parseInt(hoursGroup) ELSE 0
      minutes == IF minutesGroup # <<>> THEN parseInt(minutesGroup) ELSE 0
  IN IF start = 0 THEN 0 ELSE hours * 60 + minutes

\* duration.match(/PT(\d+H)?(\d+M)?/)
parseDuration(duration) ==
  LET start == matchStart(duration)
      hoursGroup == captureGroup(duration, start + 2, "H")
      minutesGroup == captureGroup(duration, start + 2 + Len(hoursGroup), "M")
      hours == IF hoursGroup # <<>> THEN parseInt(hoursGroup) ELSE 0
      minutes == IF minutesGroup # <<>> THEN parseInt(minutesGroup) ELSE 0
  IN IF start = 0 THEN 0 ELSE hours * 60 + minutes

\* new Date(at): at is a local date-time on the hour, given by day and hour
newDate(at) == at.day * 24 + at.hour

\* parseFloat of a price total: the totals of the model have no fraction
parseFloat(chars) == parseInt(chars)

\* offer.itineraries.reduce((total, itinerary) => total + parseDuration(...), 0)
RECURSIVE reduceDurations(_)
reduceDurations(itineraries) ==
  IF itineraries = <<>> THEN 0
  ELSE parseDuration(Head(itineraries).duration) + reduceDurations(Tail(itineraries))

\* mutant: only the first itinerary's duration is taken
processFlightOffer_firstItineraryOnly(offer) ==
  LET firstItinerary == offer.itineraries[1]
      firstSegment == firstItinerary.segments[1]
      lastSegment == firstItinerary.segments[Len(firstItinerary.segments)]
  IN [id |-> offer.id,
      itineraries |-> offer.itineraries,
      price |-> offer.price,
      totalDuration |-> parseDuration(firstItinerary.duration),
      totalStops |-> Len(firstItinerary.segments) - 1,
      mainAirline |-> firstSegment.carrierCode,
      departureTime |-> newDate(firstSegment.departure.at),
      arrivalTime |-> newDate(lastSegment.arrival.at),
      priceNumeric |-> parseFloat(offer.price.total)]

processFlightOffer(offer) ==
  LET firstItinerary == offer.itineraries[1]
      firstSegment == firstItinerary.segments[1]
      lastSegment == firstItinerary.segments[Len(firstItinerary.segments)]
  IN [id |-> offer.id,
      itineraries |-> offer.itineraries,
      price |-> offer.price,
      totalDuration |-> reduceDurations(offer.itineraries),
      totalStops |-> Len(firstItinerary.segments) - 1,
      mainAirline |-> firstSegment.carrierCode,
      departureTime |-> newDate(firstSegment.departure.at),
      arrivalTime |-> newDate(lastSegment.arrival.at),
      priceNumeric |-> parseFloat(offer.price.total)]

\* rawData.data.map(processFlightOffer)
processedFlights(data) == [i \in 1..Len(data) |-> processFlightOffer(data[i])]

\* the response to the query arrives as raw offers
QueryResponse(data) == SearchResponse(processedFlights(data))

(***************************************************************************)
(* Specification of the normalization: responses of one raw offer          *)
(***************************************************************************)
MaxItineraries == 2

MaxSegments == 2

Hours == {0, 2, 11}

Minutes == {0, 5, 45}

\* the decimal digits of a number below 100
decimal(n) ==
  IF n < 10 THEN <<DigitChars[n + 1]>>
  ELSE <<DigitChars[(n \div 10) + 1], DigitChars[(n % 10) + 1]>>

\* the ISO 8601 text of a duration of h hours and m minutes
isoDuration(h, m) ==
  <<"P", "T">>
    \o (IF h > 0 THEN decimal(h) \o <<"H">> ELSE <<>>)
    \o (IF m > 0 \/ h = 0 THEN decimal(m) \o <<"M">> ELSE <<>>)

DurationTexts == {isoDuration(h, m) : h \in Hours, m \in Minutes}

\* segment k of n: the first carrier is free, each leg takes three hours
RawSegment(carrier, k) ==
  [carrierCode |-> IF k = 1 THEN carrier ELSE "BA",
   departure |-> [at |-> [day |-> 1, hour |-> 3 * k]],
   arrival |-> [at |-> [day |-> 1, hour |-> 3 * k + 2]]]

OutboundItineraries ==
  {[duration |-> d, segments |-> [k \in 1..n |-> RawSegment(c, k)]] :
     d \in DurationTexts, n \in 1..MaxSegments, c \in {"AA", "DL"}}

ReturnItineraries ==
  {[duration |-> d, segments |-> <<RawSegment("BA", 1)>>] : d \in DurationTexts}

RawOffers ==
  {[id |-> 1, itineraries |-> <<out>> \o back, price |-> [total |-> <<"2", "5", "0">>]] :
     out \in OutboundItineraries, back \in SeqsUpTo(ReturnItineraries, MaxItineraries - 1)}

NextNormalize ==
  \/ NewSearch
  \/ \E offer \in RawOffers : QueryResponse(<<offer>>)

SpecNormalize == Init /\ [][NextNormalize]_vars

\* the hours and minutes a duration text stands for
HoursMinutes(text) ==
  CHOOSE hm \in Hours \X Minutes : isoDuration(hm[1], hm[2]) = text

\* C20: for every flight, totalDuration is the sum over all itineraries of
\* hours*60+minutes of the itinerary's duration text, totalStops is the
\* number of segments of the first itinerary minus one and is not negative,
\* mainAirline is the carrier of the first segment of the first itinerary,
\* and totalDuration is not negative.
C20_Normalization ==
  \A i \in 1..Len(flights) :
    LET f == flights[i]
        minutesOf(k) == HoursMinutes(f.itineraries[k].duration)[1] * 60
                          + HoursMinutes(f.itineraries[k].duration)[2]
        total == SumOf([k \in 1..Len(f.itineraries) |-> [m |-> minutesOf(k)]], "m")
    IN /\ f.totalDuration = total
       /\ f.totalDuration >= 0
       /\ f.totalStops = Len(f.itineraries[1].segments) - 1
       /\ f.totalStops >= 0
       /\ f.mainAirline = f.itineraries[1].segments[1].carrierCode

\* a round trip, out in 2h45 with one stop on DL, back in 11h05
C20_Witness ==
  /\ Len(flights) = 1
  /\ Len(flights[1].itineraries) = 2
  /\ flights[1].itineraries[1].duration = <<"P", "T", "2", "H", "4", "5", "M">>
  /\ flights[1].itineraries[2].duration = <<"P", "T", "1", "1", "H", "5", "M">>
  /\ flights[1].totalDuration = 830
  /\ flights[1].totalStops = 1
  /\ flights[1].mainAirline = "DL"

(***************************************************************************)
(* The fetch layer: useFlightSearch (useFlights.ts) on the query client    *)
(* (main.tsx), driven by the route's search parameters (index.tsx).  A     *)
(* cache entry is kept per query key; "none" stands for no entry.          *)
(***************************************************************************)
\* most requests the model sends for one key
MaxRequests == 2

\* firstItinerary.segments or firstSegment.carrierCode read off undefined
throwsTypeError(offer) ==
  \/ Len(offer.itineraries) = 0
  \/ Len(offer.itineraries[1].segments) = 0

\* mutant: while the current key has no data, the data of another entry is
\* shown in its place
rawDataOf_keepPrevious(cache, params) ==
  LET key == queryKey(params)
      others == {k \in DOMAIN cache : cache[k].status = "success"}
  IN IF params = NoSearch THEN <<>>
     ELSE IF cache[key].status = "success" THEN cache[key].data
     ELSE IF others # {} THEN cache[CHOOSE k \in others : TRUE].data
     ELSE <<>>

\* data of useQuery: the data of the entry of the current key, if any
rawDataOf(cache, params) ==
  LET key == queryKey(params)
  IN IF params = NoSearch THEN <<>>
     ELSE IF cache[key].status = "success" THEN cache[key].data
     ELSE <<>>

\* the render throws out of the processedFlights memo
renderThrowsOf(data) == \E i \in 1..Len(data) : throwsTypeError(data[i])

\* flights of the hook's result; nothing is rendered when the memo throws
flightsOf(cache, params) ==
  LET data == rawDataOf(cache, params)
  IN IF renderThrowsOf(data) THEN <<>> ELSE processedFlights(data)

rawData == rawDataOf(queryCache, searchParams)

renderThrows == renderThrowsOf(rawData)

\* the observer turns to the entry of key: a missing entry and a stale one
\* are fetched, a fetch in flight is joined, fresh data is used as it is
observe(cache, key) ==
  IF cache[key].status = "none"
    THEN [cache EXCEPT ![key] = [NoEntry EXCEPT !.status = "pending", !.fetching = TRUE]]
  ELSE IF cache[key].status = "success" /\ cache[key].isStale /\ ~cache[key].fetching
    THEN [cache EXCEPT ![key].fetching = TRUE]
  ELSE cache

\* the requests after the observer turned to key: one more if a fetch began
requestsAfter(cache, requests, key) ==
  IF observe(cache, key)[key].fetching /\ ~cache[key].fetching
    THEN [requests EXCEPT ![key] = @ + 1]
  ELSE requests

\* handleSearch of the route: navigate merges the form's parameters into the
\* search of the URL; the page effect and the query observer follow
navigate(params) ==
  LET search == mergeSearch(locationSearch, params)
      next == validateSearch(search)
      key == queryKey(next)
  IN /\ networkRequests[key] < MaxRequests
     /\ locationSearch' = search
     /\ searchParams' = next
     /\ currentPage' = IF pageResetDeps(next) # pageResetDeps(searchParams)
                         THEN 1 ELSE currentPage
     /\ queryCache' = IF next = searchParams THEN queryCache
                      ELSE observe(queryCache, key)
     /\ networkRequests' = IF next = searchParams THEN networkRequests
                           ELSE requestsAfter(queryCache, networkRequests, key)
     /\ flights' = flightsOf(queryCache', next)
     /\ filterTouched' = (filterTouched /\ next = searchParams)
     /\ UNCHANGED <<filters, sortField, sortDirection, sharedLink, modalVars>>

\* the request for key is answered with data
queryFnResolve(key, data) ==
  /\ queryCache[key].fetching
  /\ queryCache' = [queryCache EXCEPT ![key] =
                      [status |-> "success", data |-> data,
                       isStale |-> FALSE, fetching |-> FALSE]]
  /\ flights' = flightsOf(queryCache', searchParams)
  /\ UNCHANGED <<searchParams, filters, sortField, sortDirection, currentPage,
                 filterTouched, networkRequests, urlVars, modalVars>>

\* staleTime (5 minutes) has passed since the data of key arrived
staleTimeElapsed(key) ==
  /\ queryCache[key].status = "success"
  /\ ~queryCache[key].isStale
  /\ queryCache' = [queryCache EXCEPT ![key].isStale = TRUE]
  /\ UNCHANGED <<searchParams, flights, filters, sortField, sortDirection,
                 currentPage, filterTouched, networkRequests, urlVars, modalVars>>

\* gcTime (10 minutes) has passed since key lost its observer
gcTimeElapsed(key) ==
  /\ key # queryKey(searchParams)
  /\ queryCache[key].status = "success"
  /\ queryCache[key].isStale
  /\ ~queryCache[key].fetching
  /\ queryCache' = [queryCache EXCEPT ![key] = NoEntry]
  /\ UNCHANGED <<searchParams, flights, filters, sortField, sortDirection,
                 currentPage, filterTouched, networkRequests, urlVars, modalVars>>

\* the window gets the focus back: a stale query with an observer refetches
windowFocus ==
  LET key == queryKey(searchParams)
  IN /\ enabled
     /\ networkRequests[key] < MaxRequests
     /\ queryCache[key].status = "success"
     /\ queryCache[key].isStale
     /\ ~queryCache[key].fetching
     /\ queryCache' = observe(queryCache, key)
     /\ networkRequests' = requestsAfter(queryCache, networkRequests, key)
     /\ UNCHANGED <<searchParams, flights, filters, sortField, sortDirection,
                    currentPage, filterTouched, urlVars, modalVars>>

(***************************************************************************)
(* Specification of the fetch layer: two routes, answers of one or two     *)
(* offers for the route asked for, one of them without segments            *)
(***************************************************************************)
\* an offer for the route of params: one itinerary of one segment
RouteOffer(id, params, carrier, total) ==
  [id |-> id,
   itineraries |->
     <<[duration |-> isoDuration(2, 45),
        segments |->
          <<[carrierCode |-> carrier,
             departure |-> [iataCode |-> params.origin, at |-> [day |-> 1, hour |-> 8]],
             arrival |-> [iataCode |-> params.destination,
                          at |-> [day |-> 1, hour |-> 11]]]>>]>>,
   price |-> [total |-> total]]

\* an offer whose first itinerary has no segments
MalformedOffer(id) ==
  [id |-> id,
   itineraries |-> <<[duration |-> isoDuration(2, 45), segments |-> <<>>]>>,
   price |-> [total |-> <<"9", "9">>]]

\* what the API answers to the request for the search params
Responses(params) ==
  { <<RouteOffer(1, params, "AA", <<"2", "5", "0">>)>>,
    <<RouteOffer(1, params, "AA", <<"2", "5", "0">>),
      RouteOffer(2, params, "BA", <<"9", "9">>)>>,
    <<RouteOffer(1, params, "AA", <<"2", "5", "0">>), MalformedOffer(2)>> }

QuerySearches == {validateSearch(search) : search \in Navigations}

NextQuery ==
  \/ \E params \in Navigations : navigate(params)
  \/ \E params \in QuerySearches :
       \E data \in Responses(params) : queryFnResolve(queryKey(params), data)
  \/ \E key \in CacheKeys : staleTimeElapsed(key)
  \/ \E key \in CacheKeys : gcTimeElapsed(key)
  \/ windowFocus
  \/ \E field \in SortFields : toggleSort(field)

SpecQuery == Init /\ [][NextQuery]_vars

\* the offers of a batch that normalization can process
WellFormed(data) == SelectSeq(data, LAMBDA offer : ~throwsTypeError(offer))

\* C21: a malformed offer fails alone: every other offer of the batch of
\* the current search is normalized and is among the flights, and no
\* flight stands for the malformed offer.
C21_MalformedOfferIsLocal ==
  LET good == WellFormed(rawData)
  IN /\ Len(flights) = Len(good)
     /\ \A i \in 1..Len(good) : flights[i] = processFlightOffer(good[i])

(***************************************************************************)
(* Specification of a caller of updateFilter that also hands in ranges     *)
(* whose lower bound is above the upper bound                              *)
(***************************************************************************)
CallerPriceRanges == {<<150, 1200>>, <<1200, 150>>}

CallerDurationRanges == {<<180, 900>>, <<900, 180>>}

CallerHourRanges == {<<8, 12>>, <<12, 8>>}

NextCaller ==
  \/ NewSearch
  \/ \E fs \in SessionInputs : SearchResponse(fs)
  \/ \E v \in CallerPriceRanges : updateFilter("priceRange", v)
  \/ \E v \in CallerDurationRanges : updateFilter("duration", v)
  \/ \E v \in CallerHourRanges : updateFilter("departureTimeRange", v)

SpecCaller == Init /\ [][NextCaller]_vars

RangeDimensions == {"priceRange", "duration", "departureTimeRange", "arrivalTimeRange"}

\* C22: a range with lower bound above upper bound is turned down and
\* reported to the caller: it never becomes part of the FilterState that
\* applyFilters evaluates as an ordinary filter.
C22_InvertedRangeRejected ==
  \A dim \in RangeDimensions : filters[dim][1] <= filters[dim][2]

\* C23: a request for a key is sent only when the search key changes to a
\* key that has no cache entry and no fetch in flight; a key that is cached
\* or being fetched never gets a second request.
C23_AtMostOneFetchPerKey ==
  [][\A key \in CacheKeys :
       networkRequests'[key] > networkRequests[key] =>
         /\ queryCache[key].status = "none"
         /\ searchParams' # searchParams
         /\ queryKey(searchParams') = key]_vars

\* C24: the flights on screen are answers to the current search key: each
\* flies from its origin to its destination, and there is none while the
\* entry of the current key holds no data, whatever other key was answered
\* in the meantime.
C24_FlightsOfCurrentKey ==
  /\ \A i \in 1..Len(flights) :
       LET segments == flights[i].itineraries[1].segments
       IN /\ segments[1].departure.iataCode = searchParams.origin
          /\ segments[Len(segments)].arrival.iataCode = searchParams.destination
  /\ (enabled /\ queryCache[queryKey(searchParams)].status # "success") => flights = <<>>

\* the search went on to JFK-CDG, whose fetch is still out, and the answer
\* for JFK-LHR is in the cache
C24_Witness ==
  /\ searchParams.destination = "CDG"
  /\ queryCache[queryKey(searchParams)].status = "pending"
  /\ \E key \in CacheKeys :
       /\ key[2].destination = "LHR"
       /\ queryCache[key].status = "success"
       /\ Len(queryCache[key].data) = 2
       /\ ~renderThrowsOf(queryCache[key].data)
  /\ flights = <<>>

\* two searches that differ in maxResults and in nothing else
DifferOnlyInMaxResults(a, b) ==
  /\ a # b
  /\ DOMAIN a = DOMAIN b
  /\ "maxResults" \in DOMAIN a
  /\ \A field \in DOMAIN a \ {"maxResults"} : a[field] = b[field]

paramsSet(params, field, value) ==
  [n \in (DOMAIN params) \cup {field} |-> IF n = field THEN value ELSE params[n]]

\* if (cond) params.set(name, value)
paramsSetIf(cond, params, field, value) ==
  IF cond THEN paramsSet(params, field, value) ELSE params

\* a string field is defined and not empty
truthyString(sp, field) == field \in DOMAIN sp /\ sp[field] # ""

\* a number field is defined and not 0
truthyNumber(sp, field) == field \in DOMAIN sp /\ sp[field] # 0

\* String(n)
String(n) == decimal(n)

\* params.get(name), "" standing for null
paramsGet(params, field) == IF field \in DOMAIN params THEN params[field] ELSE ""

\* the query of setQueryParams
setQueryParams(sp) ==
  LET p1 == paramsSet(<<>>, "origin", sp.origin)
      p2 == paramsSet(p1, "destination", sp.destination)
      p3 == paramsSet(p2, "departureDate", sp.departureDate)
      p4 == paramsSetIf(truthyString(sp, "returnDate"), p3, "returnDate", sp.returnDate)
      p5 == paramsSet(p4, "adults", String(sp.adults))
      p6 == paramsSetIf(truthyNumber(sp, "children"), p5, "children", String(sp.children))
      p7 == paramsSetIf(truthyNumber(sp, "infants"), p6, "infants", String(sp.infants))
      p8 == paramsSetIf(truthyString(sp, "travelClass"), p7, "travelClass", sp.travelClass)
      p9 == paramsSetIf("nonStop" \in DOMAIN sp /\ sp.nonStop, p8, "nonStop", "true")
      p10 == paramsSetIf(truthyString(sp, "currencyCode"), p9, "currencyCode", sp.currencyCode)
  IN paramsSetIf(truthyNumber(sp, "maxResults"), p10, "maxResults", String(sp.maxResults))

\* the query of the link getShareableLink returns
getShareableLink(sp) ==
  LET p1 == paramsSet(<<>>, "origin", sp.origin)
      p2 == paramsSet(p1, "destination", sp.destination)
      p3 == paramsSet(p2, "departureDate", sp.departureDate)
      p4 == paramsSetIf(truthyString(sp, "returnDate"), p3, "returnDate", sp.returnDate)
      p5 == paramsSet(p4, "adults", String(sp.adults))
      p6 == paramsSetIf(truthyNumber(sp, "children"), p5, "children", String(sp.children))
      p7 == paramsSetIf(truthyNumber(sp, "infants"), p6, "infants", String(sp.infants))
      p8 == paramsSetIf(truthyString(sp, "travelClass"), p7, "travelClass", sp.travelClass)
      p9 == paramsSetIf("nonStop" \in DOMAIN sp /\ sp.nonStop, p8, "nonStop", "true")
      p10 == paramsSetIf(truthyString(sp, "currencyCode"), p9, "currencyCode", sp.currencyCode)
  IN paramsSetIf(truthyNumber(sp, "maxResults"), p10, "maxResults", String(sp.maxResults))

\* the query of the link ShareButton shares
shareableLink(sp) ==
  LET p1 == paramsSet(<<>>, "origin", sp.origin)
      p2 == paramsSet(p1, "destination", sp.destination)
      p3 == paramsSet(p2, "departureDate", sp.departureDate)
      p4 == paramsSetIf(truthyString(sp, "returnDate"), p3, "returnDate", sp.returnDate)
      p5 == paramsSet(p4, "adults", String(sp.adults))
      p6 == paramsSetIf(truthyNumber(sp, "children"), p5, "children", String(sp.children))
      p7 == paramsSetIf(truthyNumber(sp, "infants"), p6, "infants", String(sp.infants))
      p8 == paramsSetIf(truthyString(sp, "travelClass"), p7, "travelClass", sp.travelClass)
  IN paramsSetIf("nonStop" \in DOMAIN sp /\ sp.nonStop, p8, "nonStop", "true")

\* getQueryParams: the SearchParams read off a query, NoSearch standing for
\* null; a field that comes out undefined or null is left out
getQueryParams(params) ==
  LET origin == paramsGet(params, "origin")
      destination == paramsGet(params, "destination")
      s1 == [origin |-> origin,
             destination |-> destination,
             departureDate |-> paramsGet(params, "departureDate"),
             adults |-> parseInt(IF paramsGet(params, "adults") = ""
                                   THEN <<"1">> ELSE paramsGet(params, "adults"))]
      s2 == paramsSetIf(paramsGet(params, "returnDate") # "", s1, "returnDate",
                        paramsGet(params, "returnDate"))
      s3 == paramsSetIf("children" \in DOMAIN params, s2, "children",
                        parseInt(paramsGet(params, "children")))
      s4 == paramsSetIf("infants" \in DOMAIN params, s3, "infants",
                        parseInt(paramsGet(params, "infants")))
      s5 == paramsSetIf("travelClass" \in DOMAIN params, s4, "travelClass",
                        paramsGet(params, "travelClass"))
      s6 == paramsSetIf(paramsGet(params, "nonStop") = "true", s5, "nonStop", TRUE)
      s7 == paramsSetIf(paramsGet(params, "currencyCode") # "", s6, "currencyCode",
                        paramsGet(params, "currencyCode"))
      s8 == paramsSetIf("maxResults" \in DOMAIN params, s7, "maxResults",
                        parseInt(paramsGet(params, "maxResults")))
  IN IF origin = "" \/ destination = "" THEN NoSearch ELSE s8

\* handleSearch of the page that keeps its parameters in React state
handleSearchURL(params) ==
  /\ searchParams' = params
  /\ locationSearch' = setQueryParams(params)
  /\ UNCHANGED <<flights, filters, sortField, sortDirection, currentPage,
                 filterTouched, queryVars, sharedLink, modalVars>>

\* the Share button, disabled without search parameters
handleShare ==
  /\ searchParams # NoSearch
  /\ sharedLink' = shareableLink(searchParams)
  /\ UNCHANGED <<searchParams, flights, filters, sortField, sortDirection,
                 currentPage, filterTouched, queryVars, locationSearch, modalVars>>

\* a caller of getShareableLink hands the link on
copyShareableLink ==
  /\ searchParams # NoSearch
  /\ sharedLink' = getShareableLink(searchParams)
  /\ UNCHANGED <<searchParams, flights, filters, sortField, sortDirection,
                 currentPage, filterTouched, queryVars, locationSearch, modalVars>>

\* the page is opened at the shared link: the mount effect takes the
\* parameters from the URL
openSharedLink ==
  /\ sharedLink # <<>>
  /\ getQueryParams(sharedLink) # NoSearch
  /\ locationSearch' = sharedLink
  /\ searchParams' = getQueryParams(sharedLink)
  /\ UNCHANGED <<flights, filters, sortField, sortDirection, currentPage,
                 filterTouched, queryVars, sharedLink, modalVars>>

(***************************************************************************)
(* Specification of the shareable links                                    *)
(***************************************************************************)
ShareBase ==
  {[origin |-> "JFK", destination |-> d, departureDate |-> "d1", adults |-> a] :
     d \in {"LHR", "CDG"}, a \in {1, 2}}

\* sp with or without an optional field
Optionally(S, field, value) == S \cup {paramsSet(sp, field, value) : sp \in S}

ShareParams ==
  Optionally(Optionally(Optionally(Optionally(ShareBase,
    "returnDate", "d8"), "children", 2), "currencyCode", "EUR"), "maxResults", 50)

NextShare ==
  \/ \E params \in ShareParams : handleSearchURL(params)
  \/ handleShare
  \/ copyShareableLink
  \/ openSharedLink

SpecShare == Init /\ [][NextShare]_vars

SearchParamsFields ==
  {"origin", "destination", "departureDate", "returnDate", "adults", "children",
   "infants", "travelClass", "nonStop", "currencyCode", "maxResults"}

SearchKeyFields ==
  {"origin", "destination", "departureDate", "returnDate", "adults", "children",
   "infants", "currencyCode"}

\* two SearchParams agree in every search-key field
SameSearchKey(a, b) ==
  \A field \in SearchKeyFields :
    /\ (field \in DOMAIN a) = (field \in DOMAIN b)
    /\ field \in DOMAIN a => a[field] = b[field]

\* the query carries SearchParams fields only and reads back as sp
RoundTrip(query, sp) ==
  /\ DOMAIN query \subseteq SearchParamsFields
  /\ SameSearchKey(getQueryParams(query), sp)

\* C26: every query written to the address bar, and every link handed to
\* share, carries SearchParams fields only and reads back, with
\* getQueryParams, as the SearchParams it was built from in every search-key
\* field.
C26_LinkRoundTrip ==
  [][/\ sharedLink' # sharedLink => RoundTrip(sharedLink', searchParams)
     /\ locationSearch' # locationSearch => RoundTrip(locationSearch', searchParams')]_vars

(***************************************************************************)
(* TimeFilter: the two sliders of an hour range; key is the FilterState    *)
(* field the FilterPanel wires the TimeFilter to                           *)
(***************************************************************************)
\* mutant: the new lower bound is taken without looking at the upper one
handleMinChange_noCheck(key, newMin) ==
  /\ flights # <<>>
  /\ updateFilter(key, <<newMin, filters[key][2]>>)

handleMinChange(key, newMin) ==
  /\ flights # <<>>
  /\ IF newMin <= filters[key][2]
       THEN updateFilter(key, <<newMin, filters[key][2]>>)
       ELSE UNCHANGED vars

handleMaxChange(key, newMax) ==
  /\ flights # <<>>
  /\ IF newMax >= filters[key][1]
       THEN updateFilter(key, <<filters[key][1], newMax>>)
       ELSE UNCHANGED vars

(***************************************************************************)
(* Specification of the hour sliders: one result list, slider positions    *)
(* at both ends and in between                                             *)
(***************************************************************************)
\* the positions the sliders are moved to, within their min 0 and max 23
SliderHours == {HourMin, 8, 12, 18, HourMax}

TimeFilterKeys == {"departureTimeRange", "arrivalTimeRange"}

NextTime ==
  \/ NewSearch
  \/ SearchResponse(WithIds(<<CHOOSE k \in SessionKinds : k.priceNumeric = 99>>))
  \/ \E key \in TimeFilterKeys : \E h \in SliderHours : handleMinChange(key, h)
  \/ \E key \in TimeFilterKeys : \E h \in SliderHours : handleMaxChange(key, h)

SpecTime == Init /\ [][NextTime]_vars

\* C27: both hour ranges always have 0 <= lower <= upper <= 23.
C27_HourRangesOrdered ==
  \A key \in TimeFilterKeys :
    /\ 0 <= filters[key][1]
    /\ filters[key][1] <= filters[key][2]
    /\ filters[key][2] <= 23

\* the sliders were moved: departures from 12 to 12, arrivals from 8 to 12
C27_Witness ==
  /\ filters.departureTimeRange = <<12, 12>>
  /\ filters.arrivalTimeRange = <<8, 12>>

\* C28: a step of resetFilters leaves the FilterState at the defaults of
\* the current flights: no stops, no airlines, both hour ranges [0,23],
\* price and duration at the bounds of the flights; hasActiveFilters is
\* false and every flight passes the filters.
C28_ResetRestoresDefaults ==
  [][onClearAll =>
       /\ filters' = [priceRange |-> DefaultPriceBounds(flights'),
                      stops |-> {},
                      airlines |-> {},
                      departureTimeRange |-> <<0, 23>>,
                      arrivalTimeRange |-> <<0, 23>>,
                      duration |-> DefaultDurationBounds(flights')]
       /\ ~hasActiveFilters'
       /\ filteredFlights' = flights']_vars

\* filters were reset on a result that reaches above both fallback ranges
C28_Witness ==
  /\ filterTouched
  /\ Len(flights) = 3
  /\ PriceSet(flights) = {99, 151, 1200}
  /\ filters.priceRange = <<99, 1200>>
  /\ filters.duration = <<180, 1500>>
  /\ filters.stops = {}
  /\ filteredFlights = flights
  /\ ~hasActiveFilters

\* C29: the sort starts at (price, asc); a step that changes it either keeps
\* the field and flips the direction, or moves to another field with the
\* direction asc, whatever the direction was.
C29_ToggleSort ==
  /\ sortField = "price" /\ sortDirection = "asc"
  /\ [][<<sortField, sortDirection>>' # <<sortField, sortDirection>> =>
          \/ /\ sortField' = sortField
             /\ sortDirection' = (IF sortDirection = "asc" THEN "desc" ELSE "asc")
          \/ /\ sortField' \in SortFields \ {sortField}
             /\ sortDirection' = "asc"]_vars

\* departure was chosen and then chosen again
C29_Witness ==
  /\ flights # <<>>
  /\ sortField = "departure"
  /\ sortDirection = "desc"

(***************************************************************************)
(* The booking modal                                                       *)
(***************************************************************************)

\* the view the modal renders: nothing while the open prop is false,
\* otherwise the view of bookingState.status
view == IF open THEN bookingState.status ELSE "closed"

\* "Book Flight" on a flight card: the parent sets the open prop
openModal ==
  /\ flights # <<>>
  /\ ~open
  /\ open' = TRUE
  /\ UNCHANGED <<searchParams, flights, filters, sortField, sortDirection,
                 currentPage, filterTouched, queryVars, urlVars,
                 name, cardNumber, bookingState, confirmation>>

\* the name input of the form view
setName(value) ==
  /\ view = "form"
  /\ name' = value
  /\ UNCHANGED <<searchParams, flights, filters, sortField, sortDirection,
                 currentPage, filterTouched, queryVars, urlVars,
                 open, cardNumber, bookingState, confirmation>>

\* value.replace(/\s/g, '').slice(0, 16) on the characters of the input
cardNumberOf(value) ==
  slice(SelectSeq(value, LAMBDA c : c # " "), 0, 16)

\* the card input of the form view
setCardNumber(value) ==
  /\ view = "form"
  /\ cardNumber' = cardNumberOf(value)
  /\ UNCHANGED <<searchParams, flights, filters, sortField, sortDirection,
                 currentPage, filterTouched, queryVars, urlVars,
                 open, name, bookingState, confirmation>>

\* submit of the form, whose two inputs are required: the status becomes
\* processing and onConfirm is called, which returns a pending promise
handleSubmit ==
  /\ view = "form"
  /\ name # ""
  /\ cardNumber # <<>>
  /\ bookingState' = [status |-> "processing"]
  /\ confirmation' = "pending"
  /\ UNCHANGED <<searchParams, flights, filters, sortField, sortDirection,
                 currentPage, filterTouched, queryVars, urlVars,
                 open, name, cardNumber>>

\* the promise of onConfirm settles: the mock payment succeeds or fails
onConfirmSettles(outcome) ==
  /\ confirmation = "pending"
  /\ confirmation' = outcome
  /\ UNCHANGED <<searchParams, flights, filters, sortField, sortDirection,
                 currentPage, filterTouched, queryVars, urlVars,
                 open, name, cardNumber, bookingState>>

\* BK followed by the last six digits of the clock
BookingReferences == {"BK000001", "BK424242"}

\* err?.message || 'Booking failed. Please try again.'
errorMessageOf(message) ==
  IF message = "" THEN "Booking failed. Please try again." ELSE message

ErrorMessages == {"", "Payment declined"}

\* mutant: the catch branch reports a success as well
handleSubmitSettled_alwaysSuccess(ref, message) ==
  /\ confirmation \in {"fulfilled", "rejected"}
  /\ bookingState' = [status |-> "success", bookingReference |-> ref]
  /\ confirmation' = "none"
  /\ UNCHANGED <<searchParams, flights, filters, sortField, sortDirection,
                 currentPage, filterTouched, queryVars, urlVars,
                 open, name, cardNumber>>

\* handleSubmit after its await: the try branch on a fulfilled promise, the
\* catch branch on a rejected one
handleSubmitSettled(ref, message) ==
  /\ confirmation \in {"fulfilled", "rejected"}
  /\ bookingState' =
       IF confirmation = "fulfilled"
         THEN [status |-> "success", bookingReference |-> ref]
         ELSE [status |-> "error", errorMessage |-> errorMessageOf(message)]
  /\ confirmation' = "none"
  /\ UNCHANGED <<searchParams, flights, filters, sortField, sortDirection,
                 currentPage, filterTouched, queryVars, urlVars,
                 open, name, cardNumber>>

\* Try Again of the error view
tryAgain ==
  /\ view = "error"
  /\ bookingState' = [status |-> "form"]
  /\ UNCHANGED <<searchParams, flights, filters, sortField, sortDirection,
                 currentPage, filterTouched, queryVars, urlVars,
                 open, name, cardNumber, confirmation>>

\* the backdrop, X, Cancel, Done and Close controls of the form, success and
\* error views; the processing view has none. onClose lets the parent clear
\* the open prop.
handleClose ==
  /\ view \in {"form", "success", "error"}
  /\ bookingState' = [status |-> "form"]
  /\ name' = ""
  /\ cardNumber' = <<>>
  /\ open' = FALSE
  /\ UNCHANGED <<searchParams, flights, filters, sortField, sortDirection,
                 currentPage, filterTouched, queryVars, urlVars, confirmation>>

BookingNames == {"Ada", "Grace Hopper"}

BookingCards ==
  { <<"4", "2", "4", "2">>,
    <<"4", "2", " ", "4", "2", " ", "1">>,
    <<"4", "1", "1", "1", "1", "1", "1", "1", "1", "1", "1", "1", "1", "1",
      "1", "1", "9">> }

\* the result lists of the page behind the modal: one flight each
BookingInputs == {WithIds(<<k>>) : k \in SessionKinds}

NextBooking ==
  \/ ~open /\ NewSearch
  \/ ~open /\ \E fs \in BookingInputs : SearchResponse(fs)
  \/ openModal
  \/ \E value \in BookingNames \cup {""} : setName(value)
  \/ \E value \in BookingCards \cup {<<>>} : setCardNumber(value)
  \/ handleSubmit
  \/ \E outcome \in {"fulfilled", "rejected"} : onConfirmSettles(outcome)
  \/ \E ref \in BookingReferences, message \in ErrorMessages :
       handleSubmitSettled(ref, message)
  \/ tryAgain
  \/ handleClose

SpecBooking == Init /\ [][NextBooking]_vars

BookingEdges ==
  { <<"form", "processing">>, <<"processing", "success">>,
    <<"processing", "error">>, <<"error", "form">>, <<"success", "form">> }

\* C30: the status of the modal moves only form -> processing -> success or
\* error; it becomes success only on a fulfilled onConfirm and error only on
\* a rejected one; while it is processing no user action changes the modal;
\* Try Again leads from error to form; a close happens from form, success or
\* error only and leaves status form with name and card number empty.
C30_BookingStatusMachine ==
  [][/\ bookingState'.status # bookingState.status =>
          <<bookingState.status, bookingState'.status>> \in BookingEdges
     /\ (bookingState.status = "processing" /\ bookingState'.status = "success")
          => confirmation = "fulfilled"
     /\ (bookingState.status = "processing" /\ bookingState'.status = "error")
          => confirmation = "rejected"
     /\ bookingState.status = "processing" =>
          UNCHANGED <<open, name, cardNumber>>
     /\ (bookingState.status = "success" /\ bookingState'.status = "form")
          => ~open'
     /\ (open /\ ~open') =>
          /\ bookingState.status \in {"form", "success", "error"}
          /\ bookingState'.status = "form"
          /\ name' = ""
          /\ cardNumber' = <<>>]_vars

\* a payment went through: the modal shows the reference, the inputs kept
C30_Witness ==
  /\ open
  /\ bookingState.status = "success"
  /\ bookingState.bookingReference = "BK424242"
  /\ name = "Ada"
  /\ Len(cardNumber) = 16
  /\ confirmation = "none"

====
